---- MODULE Spec2Model ----
(***************************************************************************)
(* Model of src/app.js: a calculator made of an expression engine          *)
(* (tokenize -> toRPN -> evalRPN -> compute) and the key handler press     *)
(* that edits the two module-level strings expr and display.               *)
(*                                                                         *)
(* Strings are sequences of one-character strings.  The four operator      *)
(* glyphs of the source are not ASCII; they are written here as the named  *)
(* characters Plus, Minus, Times and Divide, so that the ASCII hyphen "-"  *)
(* that String() puts in front of a negative number stays a different      *)
(* character from the glyph Minus, as it is in the source.                 *)
(*                                                                         *)
(* float64 values are modelled as exact rationals n/d in lowest terms,     *)
(* plus NaN and undefined; binary rounding noise is not modelled.          *)
(***************************************************************************)
EXTENDS Integers, Sequences, FiniteSets, TLC

VARIABLES expr, display, pointRun, s, ret

vars == <<expr, display, pointRun, s, ret>>

\* ---------------------------------------------------------------- bounds
\* Longest expr a key press may grow the buffer to.
MaxLen == 4
\* Digit keys pressed are "0" .. MaxDigit.
MaxDigit == 1
\* Longest argument of a standalone compute(s) call.
MaxArgLen == 5
\* Longest argument "=" is pressed on: the numbers of the model are 32-bit
\* fractions, which hold a literal of up to nine characters.
MaxEvalLen == MaxLen + 3
\* Most digits of a number entered after a seeding Minus.
MaxSeedLen == 3

\* ------------------------------------------------------------ characters
Plus == "add"
Minus == "sub"
Times == "mul"
Divide == "div"
Hyphen == "-"
Undefined == "undefined"

DigitChars == <<"0", "1", "2", "3", "4", "5", "6", "7", "8", "9">>

IsDigit(c) == c \in {"0", "1", "2", "3", "4", "5", "6", "7", "8", "9"}

DigitVal(c) == (CHOOSE i \in 1..10 : DigitChars[i] = c) - 1

\* isOp(c): '＋−×÷'.includes(c); includes(undefined) looks for "undefined".
isOp(c) == c \in {Plus, Minus, Times, Divide}

\* s.at(-1) and s.at(-2): undefined when the index is out of range.
At(str, k) == IF Len(str) >= k THEN str[Len(str) + 1 - k] ELSE Undefined

\* s.slice(0, -1)
DropLast(str) == SubSeq(str, 1, Len(str) - 1)

\* ------------------------------------------------------------- tokenize
RECURSIVE tokenizeFrom(_, _, _, _)
tokenizeFrom(str, i, tokens, buf) ==
    IF i > Len(str)
    THEN IF buf # <<>> THEN Append(tokens, buf) ELSE tokens
    ELSE LET ch == str[i] IN
         IF IsDigit(ch) \/ ch = "."
         THEN tokenizeFrom(str, i + 1, tokens, Append(buf, ch))
         ELSE IF isOp(ch) \/ ch = "%"
         THEN tokenizeFrom(str, i + 1,
                 Append(IF buf # <<>> THEN Append(tokens, buf) ELSE tokens, <<ch>>),
                 <<>>)
         ELSE tokenizeFrom(str, i + 1, tokens, buf)

tokenize(str) == tokenizeFrom(str, 1, <<>>, <<>>)

\* -------------------------------------------------------------- numbers
RECURSIVE GCD(_, _)
GCD(a, b) == IF b = 0 THEN a ELSE GCD(b, a % b)

Abs(x) == IF x < 0 THEN -x ELSE x

NaN == [kind |-> "nan", n |-> 0, d |-> 1]
Undef == [kind |-> "undefined", n |-> 0, d |-> 1]

\* The number n/d (d > 0) in lowest terms.
Num(n, d) ==
    LET g == GCD(Abs(n), d)
    IN [kind |-> "num", n |-> n \div g, d |-> d \div g]

IsNum(v) == v.kind = "num"

NumAdd(a, b) == IF IsNum(a) /\ IsNum(b) THEN Num(a.n * b.d + b.n * a.d, a.d * b.d) ELSE NaN
NumSub(a, b) == IF IsNum(a) /\ IsNum(b) THEN Num(a.n * b.d - b.n * a.d, a.d * b.d) ELSE NaN
NumMul(a, b) == IF IsNum(a) /\ IsNum(b) THEN Num(a.n * b.n, a.d * b.d) ELSE NaN
\* a / b for b other than zero
NumDiv(a, b) ==
    IF IsNum(a) /\ IsNum(b) /\ b.n # 0
    THEN IF b.n > 0 THEN Num(a.n * b.d, a.d * b.n) ELSE Num(-(a.n * b.d), a.d * (-b.n))
    ELSE NaN

DotCount(t) == Cardinality({i \in 1..Len(t) : t[i] = "."})
DigitCount(t) == Cardinality({i \in 1..Len(t) : IsDigit(t[i])})

\* isNaN(t) for a token t: Number(t) is NaN unless t is a decimal literal.
isNaN(t) ==
    ~ (/\ \A i \in 1..Len(t) : IsDigit(t[i]) \/ t[i] = "."
       /\ DotCount(t) <= 1
       /\ DigitCount(t) >= 1)

RECURSIVE NumberFrom(_, _, _, _, _)
NumberFrom(t, i, n, d, seenDot) ==
    IF i > Len(t) THEN Num(n, d)
    ELSE IF t[i] = "." THEN NumberFrom(t, i + 1, n, d, TRUE)
    ELSE NumberFrom(t, i + 1, n * 10 + DigitVal(t[i]), IF seenDot THEN d * 10 ELSE d, seenDot)

\* Number(t) for a decimal literal t
Number(t) == NumberFrom(t, 1, 0, 1, FALSE)

\* ---------------------------------------------------------------- toRPN
\* prec[t]; 0 stands for undefined (a key the table does not have).
prec(t) ==
    IF t = <<Plus>> \/ t = <<Minus>> THEN 1
    ELSE IF t = <<Times>> \/ t = <<Divide>> THEN 2
    ELSE IF t = <<"%">> THEN 3
    ELSE 0

\* rightAssoc[t]
rightAssoc(t) == t = <<"%">>

OpItem(t) == [kind |-> "op", sym |-> t]

\* A comparison with undefined is false.
PrecGreater(a, b) == a # 0 /\ b # 0 /\ a > b
PrecAtLeast(a, b) == a # 0 /\ b # 0 /\ a >= b

\* while (op.length && prec[op.at(-1)] > prec[t]) out.push(op.pop());
RECURSIVE PopHigher(_, _, _)
PopHigher(out, op, t) ==
    IF Len(op) > 0 /\ PrecGreater(prec(op[Len(op)]), prec(t))
    THEN PopHigher(Append(out, OpItem(op[Len(op)])), DropLast(op), t)
    ELSE <<out, op>>

\* PopNotLower with > for >=: operators of equal precedence are not popped.
RECURSIVE PopNotLowerStrict(_, _, _)
PopNotLowerStrict(out, op, t) ==
    IF Len(op) > 0 /\ ~rightAssoc(t) /\ PrecGreater(prec(op[Len(op)]), prec(t))
    THEN PopNotLowerStrict(Append(out, OpItem(op[Len(op)])), DropLast(op), t)
    ELSE <<out, op>>

\* while (op.length && !rightAssoc[t] && prec[op.at(-1)] >= prec[t]) out.push(op.pop());
RECURSIVE PopNotLower(_, _, _)
PopNotLower(out, op, t) ==
    IF Len(op) > 0 /\ ~rightAssoc(t) /\ PrecAtLeast(prec(op[Len(op)]), prec(t))
    THEN PopNotLower(Append(out, OpItem(op[Len(op)])), DropLast(op), t)
    ELSE <<out, op>>

\* while (op.length) out.push(op.pop());
RECURSIVE PopAll(_, _)
PopAll(out, op) ==
    IF Len(op) > 0 THEN PopAll(Append(out, OpItem(op[Len(op)])), DropLast(op)) ELSE out

RECURSIVE toRPNFrom(_, _, _, _)
toRPNFrom(tokens, i, out, op) ==
    IF i > Len(tokens) THEN PopAll(out, op)
    ELSE LET t == tokens[i] IN
         IF ~isNaN(t) THEN toRPNFrom(tokens, i + 1, Append(out, Number(t)), op)
         ELSE IF t = <<"%">>
         THEN LET p == PopHigher(out, op, t)
              IN toRPNFrom(tokens, i + 1, p[1], Append(p[2], t))
         ELSE LET p == PopNotLower(out, op, t)
              IN toRPNFrom(tokens, i + 1, p[1], Append(p[2], t))

toRPN(tokens) == toRPNFrom(tokens, 1, <<>>, <<>>)

\* -------------------------------------------------------------- evalRPN
\* st.pop(): the popped value (undefined on an empty stack) and the rest.
PopValue(st) == IF Len(st) > 0 THEN st[Len(st)] ELSE Undef
PopRest(st) == IF Len(st) > 0 THEN DropLast(st) ELSE st

Hundred == Num(100, 1)

\* a / 100
PercentOf(a) == NumDiv(a, Hundred)

\* The switch of evalRPN for operands a and b that are not undefined;
\* the value pushed, or Undef when the default branch returns NaN at once.
ApplyOp(sym, a, b) ==
    IF sym = <<Plus>> THEN NumAdd(a, b)
    ELSE IF sym = <<Minus>> THEN NumSub(a, b)
    ELSE IF sym = <<Times>> THEN NumMul(a, b)
    ELSE IF sym = <<Divide>> THEN (IF IsNum(b) /\ b.n = 0 THEN NaN ELSE NumDiv(a, b))
    ELSE Undef

\* The run of evalRPN: the value returned and the stack at the return.
RECURSIVE evalRPNFrom(_, _, _)
evalRPNFrom(rpn, i, st) ==
    IF i > Len(rpn)
    THEN [value |-> IF Len(st) > 0 THEN st[1] ELSE NaN, stack |-> st]
    ELSE LET t == rpn[i] IN
         IF t.kind = "num" THEN evalRPNFrom(rpn, i + 1, Append(st, t))
         ELSE IF t.sym = <<"%">>
         THEN evalRPNFrom(rpn, i + 1, Append(PopRest(st), PercentOf(PopValue(st))))
         ELSE LET b == PopValue(st)
                  st1 == PopRest(st)
                  a == PopValue(st1)
                  st2 == PopRest(st1)
              IN IF a.kind = "undefined" \/ b.kind = "undefined"
                 THEN [value |-> NaN, stack |-> st2]
                 ELSE IF ApplyOp(t.sym, a, b).kind = "undefined"
                 THEN [value |-> NaN, stack |-> st2]
                 ELSE evalRPNFrom(rpn, i + 1, Append(st2, ApplyOp(t.sym, a, b)))

evalRPNRun(rpn) == evalRPNFrom(rpn, 1, <<>>)

evalRPN(rpn) == evalRPNRun(rpn).value

\* -------------------------------------------------------------- compute
\* Fractional digits kept by Math.round((res + Number.EPSILON) * 1e12) / 1e12
Places == 12

\* Adding Number.EPSILON before the scaling adds 2^-52 * 1e12 units of the
\* last kept place, which moves the rounding point from a half by that much:
\* 1 / (2 * 2^-52 * 1e12) = 2251.8.
EpsilonInverse == 2252

\* The first k fractional digits of r/d (0 <= r < d) by long division,
\* and the remainder left after them.
RECURSIVE FracDigits(_, _, _)
FracDigits(r, d, k) ==
    IF k = 0 THEN [digits |-> <<>>, rem |-> r]
    ELSE LET rest == FracDigits((r * 10) % d, d, k - 1)
         IN [digits |-> <<(r * 10) \div d>> \o rest.digits, rem |-> rest.rem]

\* Add one unit in the last place of a magnitude int.frac
RECURSIVE Carry(_)
Carry(m) ==
    IF m.frac = <<>> THEN [int |-> m.int + 1, frac |-> <<>>]
    ELSE LET k == Len(m.frac) IN
         IF m.frac[k] < 9
         THEN [int |-> m.int, frac |-> [m.frac EXCEPT ![k] = @ + 1]]
         ELSE LET up == Carry([int |-> m.int, frac |-> SubSeq(m.frac, 1, k - 1)])
              IN [int |-> up.int, frac |-> Append(up.frac, 0)]

\* Math.round((res + Number.EPSILON) * 1e12) / 1e12 for a number res:
\* sign, integer part and the Places fractional digits of the result.
\* Math.round rounds half towards plus infinity.
RoundPlaces(res) ==
    LET neg == res.n < 0
        mag == Abs(res.n)
        fd == FracDigits(mag % res.d, res.d, Places)
        down == [int |-> mag \div res.d, frac |-> fd.digits]
        up == IF neg THEN 2 * fd.rem - res.d > res.d \div EpsilonInverse
                     ELSE res.d - 2 * fd.rem <= res.d \div EpsilonInverse
        m == IF up THEN Carry(down) ELSE down
    IN [neg |-> neg, int |-> m.int, frac |-> m.frac]

RECURSIVE IntString(_)
IntString(n) ==
    IF n < 10 THEN <<DigitChars[n + 1]>>
    ELSE Append(IntString(n \div 10), DigitChars[(n % 10) + 1])

RECURSIVE TrimZeros(_)
TrimZeros(f) ==
    IF f # <<>> /\ f[Len(f)] = 0 THEN TrimZeros(DropLast(f)) ELSE f

RECURSIVE LeadingZeros(_)
LeadingZeros(f) ==
    IF f # <<>> /\ f[1] = 0 THEN 1 + LeadingZeros(Tail(f)) ELSE 0

DigitString(f) == [i \in 1..Len(f) |-> DigitChars[f[i] + 1]]

\* String(res) for the rounded number m: "0" for zero of either sign, an
\* ASCII hyphen before a negative number, decimal notation from 1e-6 on
\* and exponent notation below.
String(m) ==
    LET f == TrimZeros(m.frac)
        z == LeadingZeros(f)
        sig == SubSeq(f, z + 1, Len(f))
        sign == IF m.neg THEN <<Hyphen>> ELSE <<>>
    IN IF m.int = 0 /\ f = <<>> THEN <<"0">>
       ELSE IF m.int = 0 /\ z >= 6
       THEN sign \o DigitString(<<sig[1]>>)
                 \o (IF Len(sig) > 1 THEN <<".">> \o DigitString(Tail(sig)) ELSE <<>>)
                 \o <<"e", Hyphen>> \o IntString(z + 1)
       ELSE sign \o IntString(m.int)
                 \o (IF f # <<>> THEN <<".">> \o DigitString(f) ELSE <<>>)

Err == <<"E", "r", "r">>

\* compute(str): what it returns and the type of that value; the empty
\* string returns the number 0, every other argument a string.
compute(str) ==
    IF str = <<>> THEN [type |-> "number", text |-> <<"0">>]
    ELSE LET res == evalRPN(toRPN(tokenize(str)))
         IN IF ~IsNum(res) THEN [type |-> "string", text |-> Err]
            ELSE [type |-> "string", text |-> String(RoundPlaces(res))]

\* ------------------------------------------------- getCurrentNumber, tailDisplay
\* Length of the longest suffix of str matching [0-9]*\.?[0-9]* , given that
\* its last k characters match and hold a point iff dot.  Every suffix of a
\* match is a match, so the leftmost match ending at $ is the longest one.
RECURSIVE NumberRun(_, _, _)
NumberRun(str, k, dot) ==
    IF k = Len(str) THEN k
    ELSE LET c == str[Len(str) - k] IN
         IF IsDigit(c) THEN NumberRun(str, k + 1, dot)
         ELSE IF c = "." /\ ~dot THEN NumberRun(str, k + 1, TRUE)
         ELSE k

Suffix(str, k) == SubSeq(str, Len(str) - k + 1, Len(str))

\* getCurrentNumber for the pattern /([0-9]*)$/: the trailing digits only.
getCurrentNumberDigits(str) == Suffix(str, NumberRun(str, 0, TRUE))

\* s.match(/([0-9]*\.?[0-9]*)$/)[1]
getCurrentNumber(str) == Suffix(str, NumberRun(str, 0, FALSE))

\* /[0-9]$/.test(str)
EndsInDigit(str) == IsDigit(At(str, 1))

\* s.match(/([0-9]*\.?[0-9]*%?)$/)[1]
TailMatch(str) ==
    IF At(str, 1) = "%"
    THEN Append(getCurrentNumber(DropLast(str)), "%")
    ELSE getCurrentNumber(str)

tailDisplay(str) ==
    LET lastCh == At(str, 1)
        m == TailMatch(str)
    IN IF isOp(lastCh) \/ lastCh = "%" THEN <<lastCh>>
       ELSE IF m # <<>> THEN m ELSE str

\* ----------------------------------------------------------------- press
State(e, d) == [expr |-> e, display |-> d]

pressClear(e, d) == State(<<>>, <<"0">>)

\* pressDel that leaves display as it was.
pressDelStale(e, d) == State(IF Len(e) > 0 THEN DropLast(e) ELSE e, d)

\* pressDel that shows tailDisplay(expr) also when expr has become empty.
pressDelTail(e, d) ==
    LET e1 == IF Len(e) > 0 THEN DropLast(e) ELSE e
    IN State(e1, tailDisplay(e1))

pressDel(e, d) ==
    LET e1 == IF Len(e) > 0 THEN DropLast(e) ELSE e
    IN State(e1, IF e1 # <<>> THEN tailDisplay(e1) ELSE <<"0">>)

\* pressEvaluate that sets expr to the result also when it is the error marker.
pressEvaluateKeep(e, d) ==
    LET result == compute(IF e # <<>> THEN e ELSE d).text
    IN State(result, result)

\* The text of a result is what display and expr take; compute returns a
\* string here, since display is never empty and so neither is its argument.
pressEvaluate(e, d) ==
    LET result == compute(IF e # <<>> THEN e ELSE d).text
    IN State(IF result = Err THEN <<>> ELSE result, result)

pressDot(e, d) ==
    IF \E i \in 1..Len(getCurrentNumber(e)) : getCurrentNumber(e)[i] = "."
    THEN State(e, d)
    ELSE LET e1 == e \o (IF e # <<>> /\ EndsInDigit(e) THEN <<".">> ELSE <<"0", ".">>)
         IN State(e1, tailDisplay(e1))

\* pressPercent that sets display also when the key is ignored.
pressPercentDisplay(e, d) ==
    IF EndsInDigit(e)
    THEN State(Append(e, "%"), tailDisplay(Append(e, "%")))
    ELSE State(e, <<"%">>)

\* pressPercent without the test for a trailing digit.
pressPercentAlways(e, d) ==
    State(Append(e, "%"), tailDisplay(Append(e, "%")))

pressPercent(e, d) ==
    IF EndsInDigit(e)
    THEN State(Append(e, "%"), tailDisplay(Append(e, "%")))
    ELSE State(e, d)

\* pressOperator that appends without replacing a trailing operator.
pressOperatorAppend(e, d, k) ==
    IF e = <<>>
    THEN IF k = Minus THEN State(<<"0", Minus>>, <<Minus>>) ELSE State(e, d)
    ELSE LET e2 == IF At(e, 1) = "." THEN DropLast(e) ELSE e
         IN State(Append(e2, k), <<k>>)

\* pressOperator that seeds an empty expr with the operator alone.
pressOperatorBare(e, d, k) ==
    IF e = <<>>
    THEN IF k = Minus THEN State(<<Minus>>, <<Minus>>) ELSE State(e, d)
    ELSE LET e1 == IF isOp(At(e, 1)) THEN DropLast(e) ELSE e
             e2 == IF At(e1, 1) = "." THEN DropLast(e1) ELSE e1
         IN State(Append(e2, k), <<k>>)

\* pressOperator that does not strip a trailing point.
pressOperatorKeepDot(e, d, k) ==
    IF e = <<>>
    THEN IF k = Minus THEN State(<<"0", Minus>>, <<Minus>>) ELSE State(e, d)
    ELSE LET e1 == IF isOp(At(e, 1)) THEN DropLast(e) ELSE e
         IN State(Append(e1, k), <<k>>)

pressOperator(e, d, k) ==
    IF e = <<>>
    THEN IF k = Minus THEN State(<<"0", Minus>>, <<Minus>>) ELSE State(e, d)
    ELSE LET e1 == IF isOp(At(e, 1)) THEN DropLast(e) ELSE e
             e2 == IF At(e1, 1) = "." THEN DropLast(e1) ELSE e1
         IN State(Append(e2, k), <<k>>)

pressDigit(e, d, k) ==
    LET e1 == IF /\ At(e, 1) = "0"
                 /\ (Len(e) = 1 \/ isOp(At(e, 2)))
                 /\ k # "0"
              THEN Append(DropLast(e), k)
              ELSE Append(e, k)
    IN State(e1, tailDisplay(e1))

\* press(k) from the state (e, d)
press(e, d, k) ==
    IF k = "C" THEN pressClear(e, d)
    ELSE IF k = "DEL" THEN pressDel(e, d)
    ELSE IF k = "=" THEN pressEvaluate(e, d)
    ELSE IF k = "." THEN pressDot(e, d)
    ELSE IF k = "%" THEN pressPercent(e, d)
    ELSE IF isOp(k) THEN pressOperator(e, d, k)
    ELSE IF IsDigit(k) THEN pressDigit(e, d, k)
    ELSE State(e, d)

\* The argument of compute in press("=") is within the modelled range.
Evaluable(e, d) == Len(IF e # <<>> THEN e ELSE d) <= MaxEvalLen

\* ------------------------------------------------------------------ keys
OpKeys == {Plus, Minus, Times, Divide}
DigitKeys == {DigitChars[i + 1] : i \in 0..MaxDigit}
\* A key outside the logical key alphabet
OtherKey == "F1"

NotCalled == [type |-> "none", text |-> <<>>]

\* ------------------------------------------------------- the calculator
\* expr and display after construction.  pointRun records the keys pressed:
\* it holds when "." has been pressed and since then only digits (and keys
\* outside the alphabet).  s and ret
\* belong to the standalone compute call below.
Init ==
    /\ expr = <<>>
    /\ display = <<"0">>
    /\ pointRun = FALSE
    /\ s = <<>>
    /\ ret = NotCalled

\* A press may grow expr up to MaxLen characters, and "=" is pressed on an
\* argument of at most MaxEvalLen characters (a result can be longer; it can
\* then be deleted or cleared).
InBounds(k) ==
    IF k = "=" THEN Evaluable(expr, display)
    ELSE LET n == Len(press(expr, display, k).expr)
         IN n <= MaxLen \/ n <= Len(expr)

\* One call press(k): the handler runs to its return.
Press(k) ==
    /\ LET a == press(expr, display, k)
       IN /\ expr' = a.expr
          /\ display' = a.display
    /\ pointRun' = (k = "." \/ (pointRun /\ (IsDigit(k) \/ k = OtherKey)))
    /\ UNCHANGED <<s, ret>>

PressClear ==
    /\ InBounds("C")
    /\ Press("C")

PressDel ==
    /\ InBounds("DEL")
    /\ Press("DEL")

PressEvaluate ==
    /\ InBounds("=")
    /\ Press("=")

PressDot ==
    /\ InBounds(".")
    /\ Press(".")

PressPercent ==
    /\ InBounds("%")
    /\ Press("%")

PressOperator ==
    \E k \in OpKeys :
        /\ InBounds(k)
        /\ Press(k)

PressDigit ==
    \E k \in DigitKeys :
        /\ InBounds(k)
        /\ Press(k)

PressOther ==
    /\ InBounds(OtherKey)
    /\ Press(OtherKey)

Next ==
    \/ PressClear
    \/ PressDel
    \/ PressEvaluate
    \/ PressDot
    \/ PressPercent
    \/ PressOperator
    \/ PressDigit
    \/ PressOther

Spec == Init /\ [][Next]_vars

\* ------------------------------------------- compute called on its own
\* compute(text) is part of the public surface: the strings it is called on
\* are all strings of at most MaxArgLen characters over three digits, the
\* point, the percent and the four operators.
ArgChars == {"0", "1", "2", ".", "%"} \cup OpKeys
\* The numbers of the model are 32-bit fractions: they hold the values of
\* strings with up to three percents.
InRange(str) == Cardinality({i \in 1..Len(str) : str[i] = "%"}) <= 3
ArgStrings == {str \in UNION {[1..n -> ArgChars] : n \in 0..MaxArgLen} : InRange(str)}

InitCompute ==
    /\ expr = <<>>
    /\ display = <<"0">>
    /\ pointRun = FALSE
    /\ s \in ArgStrings
    /\ ret = NotCalled

CallCompute ==
    /\ ret = NotCalled
    /\ ret' = compute(s)
    /\ UNCHANGED <<expr, display, pointRun, s>>

NextCompute == CallCompute

SpecCompute == InitCompute /\ [][NextCompute]_vars

\* ============================================================== claims
\* ---------------------------------------- conventional infix evaluation
\* The reference the engine is compared with.  It reads the characters of
\* the expression itself and uses neither tokenize, toRPN nor evalRPN.

\* The operands of str (the runs between binary operators), left to right.
RECURSIVE OperandsOf(_, _, _)
OperandsOf(str, i, cur) ==
    IF i > Len(str) THEN <<cur>>
    ELSE IF isOp(str[i]) THEN <<cur>> \o OperandsOf(str, i + 1, <<>>)
    ELSE OperandsOf(str, i + 1, Append(cur, str[i]))

\* The binary operators of str, left to right.
OperatorsOf(str) == SelectSeq(str, isOp)

IsLiteral(o) ==
    /\ o # <<>>
    /\ \A i \in 1..Len(o) : IsDigit(o[i]) \/ o[i] = "."
    /\ Cardinality({i \in 1..Len(o) : o[i] = "."}) <= 1
    /\ \E i \in 1..Len(o) : IsDigit(o[i])

\* An operand: a numeric literal, optionally followed by one percent.
IsOperand(o) ==
    \/ IsLiteral(o)
    \/ o # <<>> /\ o[Len(o)] = "%" /\ IsLiteral(DropLast(o))

\* Operands separated by single binary operators.
WellFormed(str) ==
    /\ \A i \in 1..Len(str) : IsDigit(str[i]) \/ isOp(str[i]) \/ str[i] \in {".", "%"}
    /\ \A i \in 1..Len(OperandsOf(str, 1, <<>>)) : IsOperand(OperandsOf(str, 1, <<>>)[i])

\* A percent divides the literal before it by 100.
OperandValue(o) ==
    IF o[Len(o)] = "%" THEN NumDiv(Number(DropLast(o)), Num(100, 1)) ELSE Number(o)

\* x op y; a quotient by zero has no value (NaN), nor has anything made of it.
Conventional(op, x, y) ==
    IF op = Plus THEN NumAdd(x, y)
    ELSE IF op = Minus THEN NumSub(x, y)
    ELSE IF op = Times THEN NumMul(x, y)
    ELSE IF IsNum(y) /\ y.n = 0 THEN NaN ELSE NumDiv(x, y)

\* Left to right over the operators from the i-th on: sum is the value of the
\* terms closed so far, pending the additive operator before the open term,
\* term the product of the factors of the open term.
RECURSIVE InfixFrom(_, _, _, _, _, _)
InfixFrom(vals, ops, i, sum, pending, term) ==
    IF i > Len(ops) THEN Conventional(pending, sum, term)
    ELSE IF ops[i] \in {Times, Divide}
    THEN InfixFrom(vals, ops, i + 1, sum, pending, Conventional(ops[i], term, vals[i + 1]))
    ELSE InfixFrom(vals, ops, i + 1, Conventional(pending, sum, term), ops[i], vals[i + 1])

\* The conventional value of a well-formed expression.
InfixValue(str) ==
    LET os == OperandsOf(str, 1, <<>>)
        vals == [i \in 1..Len(os) |-> OperandValue(os[i])]
    IN InfixFrom(vals, OperatorsOf(str), 1, Num(0, 1), Plus, vals[1])

\* C1: for every well-formed expression string s, evalRPN(toRPN(tokenize(s)))
\* is the conventional infix value of s: Times and Divide bind tighter than
\* Plus and Minus, equal precedence goes left to right, and a percent divides
\* only the operand just before it by 100.
C1_InfixValue ==
    WellFormed(s) => evalRPN(toRPN(tokenize(s))) = InfixValue(s)

\* C1 witness: 2 / 2 / 2 has been computed, left to right, as 0.5.
C1_Witness ==
    /\ s = <<"2", Divide, "2", Divide, "2">>
    /\ WellFormed(s)
    /\ ret.text = <<"0", ".", "5">>

\* ------------------------------------------------------- key sequences
Keys == {"C", "DEL", "=", ".", "%"} \cup OpKeys \cup DigitKeys \cup {OtherKey}

Here == State(expr, display)

\* The state after press(k) from the state st
After(st, k) == press(st.expr, st.display, k)

\* The state after pressing the keys of the sequence ks in turn
RECURSIVE AfterAll(_, _)
AfterAll(st, ks) == IF ks = <<>> THEN st ELSE AfterAll(After(st, Head(ks)), Tail(ks))

\* Number(r) for a result string r: an ASCII hyphen in front negates.
ResultValue(r) ==
    IF r[1] = Hyphen THEN NumSub(Num(0, 1), Number(Tail(r))) ELSE Number(r)

\* The display string of the value v
DisplayOf(v) == IF IsNum(v) THEN String(RoundPlaces(v)) ELSE Err

\* C2: after any press of "=" that gives a result r other than the error
\* marker, display and expr both hold r, and pressing a binary operator, an
\* operand n and "=" then shows the value of r <op> n.  (Results short enough
\* for r <op> n to be evaluated in the model.)
C2_ChainContinues ==
    Evaluable(expr, display) =>
        LET r == After(Here, "=")
        IN r.display # Err =>
              /\ r.expr = r.display
              /\ Len(r.expr) + 2 <= MaxEvalLen =>
                    \A op \in OpKeys, n \in DigitKeys :
                        AfterAll(r, <<op, n, "=">>).display
                            = DisplayOf(Conventional(op, ResultValue(r.display), Number(<<n>>)))

\* C3: a second "=" right after a "=" leaves expr and display unchanged.
C3_RepeatedEvaluate ==
    Evaluable(expr, display) =>
        LET r == After(Here, "=")
        IN Evaluable(r.expr, r.display) => After(r, "=") = r

\* C4: expr is empty or a well-formed prefix of an expression: operands
\* alternating with single binary operators, at most one trailing operator.
C4_WellFormedPrefix ==
    \/ expr = <<>>
    \/ WellFormed(expr)
    \/ isOp(At(expr, 1)) /\ WellFormed(DropLast(expr))

\* The claim of C5 as stated: after any press of a key other than "=" and
\* "C", tailDisplay(expr) is not empty and equals display.
C5_AsStated ==
    \A k \in Keys \ {"=", "C"} :
        LET a == After(Here, k)
        IN tailDisplay(a.expr) # <<>> /\ tailDisplay(a.expr) = a.display

\* The current operand holds a point: a point with only digits after it.
OperandHasPoint(str) ==
    \E i \in 1..Len(str) : str[i] = "." /\ \A j \in (i + 1)..Len(str) : IsDigit(str[j])

\* The presses the handler ignores (the silent no-ops).
Ignored(st, k) ==
    \/ k = "." /\ OperandHasPoint(st.expr)
    \/ k = "%" /\ (st.expr = <<>> \/ ~IsDigit(st.expr[Len(st.expr)]))
    \/ k \in {Plus, Times, Divide} /\ st.expr = <<>>
    \/ k = OtherKey

\* C5: after a press of a digit, a binary operator or DEL, or of "." or "%"
\* when it is not ignored, that leaves expr non-empty, tailDisplay(expr) is
\* not empty and equals display.
C5_TailDisplay ==
    \A k \in Keys \ {"=", "C", OtherKey} :
        LET a == After(Here, k)
            shown == tailDisplay(a.expr)
        IN (~Ignored(Here, k) /\ a.expr # <<>>) =>
              shown # <<>> /\ shown = a.display

\* C5 witness: DEL on "1.1" leaves "1." in both expr's tail and display.
C5_Witness ==
    /\ expr = <<"1", ".", "1">>
    /\ After(Here, "DEL") = State(<<"1", ".">>, <<"1", ".">>)

\* C6: with expr not empty, pressing operator A and then operator B gives
\* the state that pressing B alone gives.
C6_OperatorReplacement ==
    expr # <<>> =>
        \A B \in OpKeys :
            LET alone == After(Here, B)
            IN \A A \in OpKeys : AfterAll(Here, <<A, B>>) = alone

\* C6 witness: from "1." pressing Plus then Times gives "1" Times.
C6_Witness ==
    /\ expr = <<"1", ".">>
    /\ AfterAll(Here, <<Plus, Times>>) = State(<<"1", Times>>, <<Times>>)

C8_SecondPoint == pointRun => After(Here, ".").expr = expr

\* C8 witness: "." and two digits were pressed, and a second "." leaves
\* expr as it is.
C8_Witness ==
    /\ pointRun
    /\ expr = <<"0", ".", "1", "0">>
    /\ After(Here, ".").expr = expr

\* Some Divide of str has a right operand whose value is zero.
DividesByZero(str) ==
    \E i \in 1..Len(str) :
        /\ str[i] = Divide
        /\ \E j \in (i + 1)..Len(str) :
              /\ j = Len(str) \/ isOp(str[j + 1])
              /\ \A m \in (i + 1)..j : ~isOp(str[m])
              /\ IsOperand(SubSeq(str, i + 1, j))
              /\ OperandValue(SubSeq(str, i + 1, j)).n = 0

\* compute gives the error marker for st.expr, and so does press("=").
ReportsError(st) ==
    /\ compute(st.expr).text = Err
    /\ After(st, "=").display = Err

\* C9: an expr with a division by zero evaluates to the error marker: the
\* expr of every reachable state, and the expr it becomes when Divide and
\* "0" are pressed.
C9_DivisionByZero ==
    /\ (DividesByZero(expr) /\ Evaluable(expr, display)) => ReportsError(Here)
    /\ LET z == AfterAll(Here, <<Divide, "0">>)
       IN (DividesByZero(z.expr) /\ Evaluable(z.expr, z.display)) => ReportsError(z)

\* C10: when "=" gives the error marker expr becomes empty; display is the
\* error marker only with expr empty; display then stays through ignored
\* presses; and a digit press d then gives expr = d and display = d.
C10_ErrorRecovery ==
    /\ Evaluable(expr, display) =>
          LET r == After(Here, "=")
          IN r.display = Err => r.expr = <<>>
    /\ display = Err =>
          /\ expr = <<>>
          /\ \A k \in Keys : Ignored(Here, k) => After(Here, k).display = Err
          /\ \A k \in DigitKeys : After(Here, k) = State(<<k>>, <<k>>)

\* C10 witness: the error marker is shown and "%" is ignored.
C10_Witness ==
    /\ display = Err
    /\ expr = <<>>
    /\ Ignored(Here, "%")

\* The state after n presses of DEL from the state st
RECURSIVE DelRepeated(_, _)
DelRepeated(st, n) == IF n = 0 THEN st ELSE DelRepeated(After(st, "DEL"), n - 1)

\* Pressing DEL again and again from st: each press on a non-empty expr
\* removes exactly its last character, the press that empties expr shows
\* "0", and a press on the empty expr keeps it empty and shows "0".
RECURSIVE DelEmpties(_)
DelEmpties(st) ==
    LET a == After(st, "DEL")
    IN IF st.expr = <<>>
       THEN a = State(<<>>, <<"0">>)
       ELSE /\ a.expr = DropLast(st.expr)
            /\ a.expr = <<>> => a.display = <<"0">>
            /\ DelEmpties(a)

\* C11: from every reachable state, repeating DEL empties expr after
\* Len(expr) presses, each removing exactly the last character; in the state
\* where expr has become empty display is "0", and further presses of DEL
\* keep expr empty and display "0".
C11_DelToEmpty == DelEmpties(Here)

\* C11 witness: from "1" Plus "1." four presses of DEL empty expr and show "0".
C11_Witness ==
    /\ expr = <<"1", Plus, "1", ".">>
    /\ DelRepeated(Here, 3) = State(<<"1">>, <<"1">>)
    /\ DelRepeated(Here, 4) = State(<<>>, <<"0">>)
    /\ DelRepeated(Here, 5) = State(<<>>, <<"0">>)

\* C12: compute applied to the empty string returns the string "0": a value
\* of the kind it returns for every other argument.
C12_EmptyString ==
    (s = <<>> /\ ret # NotCalled) => ret = [type |-> "string", text |-> <<"0">>]

\* The digit sequences of the numbers entered after a seeding Minus
SeedDigits == UNION {[1..n -> DigitKeys] : n \in 1..MaxSeedLen}

\* The decimal numeral ds without its leading zeros (empty for zero)
RECURSIVE StripZeros(_)
StripZeros(ds) == IF ds # <<>> /\ ds[1] = "0" THEN StripZeros(Tail(ds)) ELSE ds

\* How the value 0 - n is displayed, for the decimal numeral ds of n
NegativeOf(ds) ==
    IF StripZeros(ds) = <<>> THEN <<"0">> ELSE <<Hyphen>> \o StripZeros(ds)

\* C13: in every reachable state with expr empty, a press of Minus sets expr
\* to "0" Minus and display to Minus, and pressing then the digits of a
\* number n and "=" shows the value 0 - n.
C13_NegativeSeeding ==
    expr = <<>> =>
        /\ After(Here, Minus) = State(<<"0", Minus>>, <<Minus>>)
        /\ \A ds \in SeedDigits :
              AfterAll(After(Here, Minus), Append(ds, "=")).display = NegativeOf(ds)

\* C13 witness: after an error, Minus, "1", "0" and "=" show -10.
C13_Witness ==
    /\ expr = <<>>
    /\ display = Err
    /\ After(Here, Minus) = State(<<"0", Minus>>, <<Minus>>)
    /\ AfterAll(Here, <<Minus, "1", "0", "=">>).display = <<Hyphen, "1", "0">>

\* C14: when the evaluation of the postfix sequence made from a reachable
\* expr returns a number (not NaN), the operand stack holds exactly one
\* value at the return.
C14_SingleValue ==
    (expr # <<>> /\ Evaluable(expr, display)) =>
        LET run == evalRPNRun(toRPN(tokenize(expr)))
        IN IsNum(run.value) => Len(run.stack) = 1

\* A token that is a binary operator; a token that is an operand (a literal).
IsOpToken(t) == Len(t) = 1 /\ isOp(t[1])
IsOperandToken(t) == t # <<"%">> /\ ~IsOpToken(t)

\* In the token sequence ts some binary operator or percent has no operand
\* before it (nothing, or a binary operator), or some binary operator has
\* no operand after it.
MissingOperand(ts) ==
    \E i \in 1..Len(ts) :
        \/ /\ IsOpToken(ts[i]) \/ ts[i] = <<"%">>
           /\ i = 1 \/ IsOpToken(ts[i - 1])
        \/ /\ IsOpToken(ts[i])
           /\ i = Len(ts) \/ ~IsOperandToken(ts[i + 1])

\* C15: for every token sequence in which a binary operator or a percent has
\* no operand before it, or a binary operator none after it,
\* evalRPN(toRPN(tokens)) is NaN and compute returns the error marker.
C15_MalformedFails ==
    (MissingOperand(tokenize(s)) /\ ret # NotCalled) =>
        /\ evalRPN(toRPN(tokenize(s))) = NaN
        /\ ret = [type |-> "string", text |-> Err]

\* C16: no operand of expr begins with a "0" that another digit follows.
C16_NoLeadingZeros ==
    \A i \in 1..Len(OperandsOf(expr, 1, <<>>)) :
        LET o == OperandsOf(expr, 1, <<>>)[i]
        IN ~(Len(o) >= 2 /\ o[1] = "0" /\ IsDigit(o[2]))

\* The string press("=") passes to compute: expr || display
EvaluateArg == IF expr # <<>> THEN expr ELSE display

\* C17: when the postfix sequence the evaluator is applied to is empty (so
\* that the operand stack is empty at the end), it returns 0.
C17_EmptyPostfix ==
    (Evaluable(expr, display) /\ toRPN(tokenize(EvaluateArg)) = <<>>) =>
        evalRPN(toRPN(tokenize(EvaluateArg))) = Num(0, 1)

\* C18: every percent in expr has a digit right before it (so there are no
\* two percents in a row, and none right after an operator or a point).
C18_PercentAfterDigit ==
    \A i \in 1..Len(expr) : expr[i] = "%" => (i > 1 /\ IsDigit(expr[i - 1]))

\* C18 witness: expr is "1%"; a second percent is not taken, nor one after
\* an operator or after a point.
C18_Witness ==
    /\ expr = <<"1", "%">>
    /\ After(Here, "%").expr = <<"1", "%">>
    /\ AfterAll(Here, <<Plus, "%">>).expr = <<"1", "%", Plus>>
    /\ AfterAll(Here, <<".", "%">>).expr = <<"1", "%", "0", ".">>

\* C19: expr never begins with a binary operator, never holds two binary
\* operators side by side, and never holds a point with a binary operator
\* right after it.
C19_OperatorPlacement ==
    /\ expr # <<>> => ~isOp(expr[1])
    /\ \A i \in 1..(Len(expr) - 1) :
          isOp(expr[i + 1]) => (~isOp(expr[i]) /\ expr[i] # ".")

\* C19 witness: expr is "0" Minus "0."; Plus drops the point and Times then
\* replaces Plus, and after two presses of DEL Times replaces Minus.
C19_Witness ==
    /\ expr = <<"0", Minus, "0", ".">>
    /\ AfterAll(Here, <<Plus, Times>>).expr = <<"0", Minus, "0", Times>>
    /\ AfterAll(Here, <<"DEL", "DEL", Times>>).expr = <<"0", Times>>

\* Every numeric-literal token of tokenize(str) holds at most one point.
SinglePoints(str) ==
    \A i \in 1..Len(tokenize(str)) :
        IsOperandToken(tokenize(str)[i]) => DotCount(tokenize(str)[i]) <= 1

\* Keys that give a result below 1e-6 with two significant digits, which
\* String() writes in exponent notation ("1.1e-7"), and then a point.
SmallResultKeys ==
    <<"C", "1", ".", "1", Divide, "1", "0", "0", "0", "0", "0", "0", "0", "=", ".">>

\* C20: every numeric-literal token of tokenize(expr) holds at most one
\* point: for the expr of every reachable state, and for the expr it becomes
\* when the keys of SmallResultKeys are pressed.
C20_SinglePoint ==
    /\ SinglePoints(expr)
    /\ SinglePoints(AfterAll(Here, SmallResultKeys).expr)

====
